---- MODULE Spec2Model ----
(***************************************************************************)
(* Curiosity Quiz (src/app.py): a Streamlit script whose session state is  *)
(* driven by widget events.  Every script run re-renders the page from the *)
(* session state; the handlers start_quiz, next_question, generate_summary *)
(* and restart_game change the session state and call the remote model.    *)
(*                                                                         *)
(* Encoding.  Python None is the empty sequence and a present value x is   *)
(* <<x>>.  A JSON object is a record whose DOMAIN is its key set.  A       *)
(* response content string is a record [kind, value] that json_loads       *)
(* parses.  Markdown text is a sequence of tokens <<kind, n, a, b>> and    *)
(* string concatenation is \o.  An error message f"{prefix}{details}" is   *)
(* the pair <<prefix, details>>.                                           *)
(***************************************************************************)
EXTENDS Integers, Sequences, FiniteSets, TLC

VARIABLES api_key, game_state, topic, history, current_question,
          summary_content, selected_option_index, is_answered, error,
          page, last, turn_recorded, quiz_requests

session == <<game_state, topic, history, current_question, summary_content,
             selected_option_index, is_answered, error>>

vars == <<api_key, game_state, topic, history, current_question,
          summary_content, selected_option_index, is_answered, error,
          page, last, turn_recorded, quiz_requests>>

None == <<>>

Some(x) == <<x>>

\* ---- bounds of the exploration ----

\* number of distinct topics the user may type
NumTopics == 1

\* longest search_results list of a summary response
MaxSources == 2

\* ---- program constants ----

\* len(history) >= 5 ends the quiz
QUIZ_LENGTH == 5

\* quiz_schema: options has minItems = maxItems = 4
NUM_OPTIONS == 4

\* quiz_schema: correct_option_index maximum
MAX_INDEX == 3

\* the correct_option_index values the remote model returns in Spec; the
\* specification SpecTurns draws them from the whole range 0..MAX_INDEX
CorrectIndexes == {0}

TopicNames == <<"Rome", "Volcanoes", "Jazz">>

Topics == {TopicNames[i] : i \in 1..NumTopics}

\* ---- the remote model's structured answers ----

FourOptions == <<"A", "B", "C", "D">>

WellFormed(idx) ==
    [question_text |-> "Q", options |-> FourOptions,
     correct_option_index |-> idx, explanation |-> "E"]

MissingOptions ==
    [question_text |-> "Q", correct_option_index |-> 0, explanation |-> "E"]

ThreeOptions ==
    [question_text |-> "Q", options |-> <<"A", "B", "C">>,
     correct_option_index |-> 3, explanation |-> "E"]

\* the shape quiz_schema asks the remote service for
quiz_schema(q) ==
    /\ DOMAIN q = {"question_text", "options", "correct_option_index", "explanation"}
    /\ Len(q.options) = NUM_OPTIONS
    /\ q.correct_option_index \in 0..MAX_INDEX

QuestionObjects(idxs) ==
    {WellFormed(i) : i \in idxs} \cup {MissingOptions, ThreeOptions}

EmptyString == [kind |-> "empty", value |-> None]

NotJson == [kind |-> "not_json", value |-> None]

JsonNull == [kind |-> "json", value |-> None]

JsonObject(o) == [kind |-> "json", value |-> Some(o)]

\* response.choices[0].message.content: None, or a string
Contents(idxs) ==
    {None, Some(EmptyString), Some(NotJson), Some(JsonNull)}
      \cup {Some(JsonObject(o)) : o \in QuestionObjects(idxs)}

\* json.loads(s): raises on text that is not JSON, else the parsed value
json_loads(s) ==
    IF s.kind = "json" THEN [raised |-> FALSE, value |-> s.value]
                       ELSE [raised |-> TRUE, value |-> None]

\* Python truthiness of a content string or None
ContentTruthy(c) == c # None /\ c[1].kind # "empty"

\* exceptions client.chat.completions.create can raise: e.body is a JSON
\* string carrying error.message, or anything else (missing, dict, text)
QuizExceptions ==
    {[type |-> "status", body |-> Some("quota exceeded"), text |-> "Error code: 429"],
     [type |-> "status", body |-> None, text |-> "Error code: 500"],
     [type |-> "connection", body |-> None, text |-> "Connection error."]}

QuizOutcomes(idxs) ==
    {[kind |-> "ok", content |-> c] : c \in Contents(idxs)}
      \cup {[kind |-> "exception", exc |-> e] : e \in QuizExceptions}

\* ---- the remote model's summary answers ----

SourceRecords ==
    {[title |-> "T1", url |-> "U1"], [url |-> "U2"]}

RECURSIVE SeqsUpTo(_, _)
SeqsUpTo(S, n) ==
    IF n = 0 THEN {<<>>}
    ELSE LET shorter == SeqsUpTo(S, n - 1)
         IN  shorter \cup {Append(s, x) : s \in {t \in shorter : Len(t) = n - 1}, x \in S}

\* one piece of Markdown text
Token(kind, n, a, b) == <<kind, n, a, b>>

\* choices[0].message.content of a summary response: null, "" or a narrative
Narratives == {None, Some(<<>>), Some(<<Token("text", 0, "narrative", "")>>)}

\* the decoded body of a 2xx summary response
SummaryData ==
    {[content |-> c] : c \in Narratives}
      \cup {[content |-> c, search_results |-> r] :
              c \in Narratives, r \in SeqsUpTo(SourceRecords, MaxSources)}

SummaryOutcomes ==
    {[kind |-> "ok", data |-> d] : d \in SummaryData}
      \cup {[kind |-> k, text |-> t] :
              <<k, t>> \in {<<"timeout", "Read timed out.">>,
                            <<"network", "Connection refused">>,
                            <<"http_error", "500 - Internal Server Error">>,
                            <<"bad_json", "Expecting value">>,
                            <<"no_choices", "'choices'">>}}

NoOutcome == [kind |-> "none"]

\* ---- API helper functions ----

QuizErrorMessage(e) ==
    IF e.body # None THEN <<"API Error: ", e.body[1]>>
                     ELSE <<"An unexpected API error occurred: ", e.text>>

\* get_quiz_question: the content on success; on an exception the session
\* error is set and None is returned
get_quiz_question(o) ==
    IF o.kind = "ok"
    THEN [value |-> o.content, sets_error |-> FALSE, error |-> None]
    ELSE [value |-> None, sets_error |-> TRUE,
          error |-> Some(QuizErrorMessage(o.exc))]

RECURSIVE SourceItems(_, _)
\* the loop over enumerate(search_results), from index i on
SourceItems(results, i) ==
    IF i > Len(results) THEN <<>>
    ELSE LET result == results[i]
             title == IF "title" \in DOMAIN result THEN result.title ELSE "Source Link"
             url == IF "url" \in DOMAIN result THEN result.url ELSE "None"
         IN  <<Token("item", i, title, url)>> \o SourceItems(results, i + 1)

SourcesHeader == Token("sources_header", 0, "", "")

\* a source list in the reverse of the order of search_results
sources_md_reversed(results) ==
    <<SourcesHeader>>
      \o SourceItems([i \in 1..Len(results) |-> results[Len(results) + 1 - i]], 1)

sources_md(results) == <<SourcesHeader>> \o SourceItems(results, 1)

SummaryErrorMessage(o) ==
    IF o.kind = "http_error" THEN <<"API Error: ", o.text>>
                             ELSE <<"An unexpected error occurred: ", o.text>>

\* get_summary_with_sources: the summary text on success; on an exception
\* the session error is set and None is returned
get_summary_with_sources(o) ==
    IF o.kind # "ok"
    THEN [value |-> None, sets_error |-> TRUE, error |-> Some(SummaryErrorMessage(o))]
    ELSE LET data == o.data
             summary_text == data.content
             search_results == IF "search_results" \in DOMAIN data
                               THEN data.search_results ELSE <<>>
         IN  IF search_results = <<>>
             THEN [value |-> summary_text, sets_error |-> FALSE, error |-> None]
             ELSE IF summary_text = None
                  THEN [value |-> None, sets_error |-> TRUE,
                        error |-> Some(<<"An unexpected error occurred: ",
                                         "unsupported operand type(s) for +=">>)]
                  ELSE [value |-> Some(summary_text[1] \o sources_md(search_results)),
                        sets_error |-> FALSE, error |-> None]

\* Python truthiness of a summary text or None
TextTruthy(t) == t # None /\ t[1] # <<>>

\* ---- UI rendering ----

Widget(name, i) == <<name, i>>

\* a quiz branch whose answer buttons stay enabled after an answer
RenderStateKeepingOptions(gs, cq, answered, sc) ==
    IF gs = "start" THEN {Widget("topic_form", 0)}
    ELSE IF gs = "quiz" /\ cq # None THEN
        LET q == cq[1] IN
        IF "question_text" \notin DOMAIN q \/ "options" \notin DOMAIN q THEN {}
        ELSE {Widget("option", i) : i \in 0..(Len(q.options) - 1)}
               \cup (IF answered /\ {"correct_option_index", "explanation"} \subseteq DOMAIN q
                     THEN {Widget("next", 0)} ELSE {})
    ELSE IF gs = "summary" /\ TextTruthy(sc)
         THEN {Widget("dig_deeper", 0), Widget("new_quiz", 0)}
    ELSE {}

\* the branches of the page below the error branch
RenderState(gs, cq, answered, sc) ==
    IF gs = "start" THEN {Widget("topic_form", 0)}
    ELSE IF gs = "quiz" /\ cq # None THEN
        LET q == cq[1] IN
        IF "question_text" \notin DOMAIN q \/ "options" \notin DOMAIN q THEN {}
        ELSE IF ~answered
             THEN {Widget("option", i) : i \in 0..(Len(q.options) - 1)}
             ELSE IF {"correct_option_index", "explanation"} \subseteq DOMAIN q
                  THEN {Widget("next", 0)} ELSE {}
    ELSE IF gs = "summary" /\ TextTruthy(sc)
         THEN {Widget("dig_deeper", 0), Widget("new_quiz", 0)}
    ELSE {}

\* a page whose error branch does not shut out the other branches
RenderWithoutErrorGate(key, gs, cq, answered, sc, err) ==
    IF ~key THEN {}
    ELSE (IF err # None THEN {Widget("start_over", 0)} ELSE {})
           \cup RenderState(gs, cq, answered, sc)

\* the interactive widgets one script run puts on the page; without an
\* API key the script stops before it draws any
Render(key, gs, cq, answered, sc, err) ==
    IF ~key THEN {}
    ELSE IF err # None THEN {Widget("start_over", 0)}
    ELSE RenderState(gs, cq, answered, sc)

\* ---- session state initializer ----

InitSession ==
    /\ game_state = "start"
    /\ topic = ""
    /\ history = <<>>
    /\ current_question = None
    /\ summary_content = None
    /\ selected_option_index = None
    /\ is_answered = FALSE
    /\ error = None

\* without an API key the script stops before the initializer: no key of
\* the session state exists
NoSession ==
    /\ game_state = "unset"
    /\ topic = ""
    /\ history = <<>>
    /\ current_question = None
    /\ summary_content = None
    /\ selected_option_index = None
    /\ is_answered = FALSE
    /\ error = None

\* a first script run that does not stop when the API key is missing
InitIgnoringMissingKey ==
    /\ api_key \in BOOLEAN
    /\ InitSession
    /\ page = RenderState(game_state, current_question, is_answered,
                          summary_content)
    /\ last = [op |-> "init", request |-> "none", outcome |-> NoOutcome,
               crashed |-> FALSE]
    /\ turn_recorded = FALSE
    /\ quiz_requests = 0

Init ==
    /\ api_key \in BOOLEAN
    /\ IF api_key THEN InitSession ELSE NoSession
    /\ page = Render(api_key, game_state, current_question, is_answered,
                     summary_content, error)
    /\ last = [op |-> "init", request |-> "none", outcome |-> NoOutcome,
               crashed |-> FALSE]
    /\ turn_recorded = FALSE
    /\ quiz_requests = 0

\* ---- core game logic ----

reset_turn_state ==
    /\ selected_option_index' = None
    /\ is_answered' = FALSE
    /\ error' = None

\* start_quiz(topic) with the remote model answering o; an uncaught
\* exception of json.loads ends the script run where it is raised
start_quiz(t, o) ==
    LET r == get_quiz_question(o) IN
    /\ topic' = t
    /\ history' = <<>>
    /\ turn_recorded' = FALSE
    /\ quiz_requests' = 1
    /\ UNCHANGED summary_content
    /\ IF ContentTruthy(r.value)
       THEN LET parsed == json_loads(r.value[1]) IN
            IF parsed.raised
            THEN /\ UNCHANGED <<current_question, game_state,
                                selected_option_index, is_answered, error>>
                 /\ last' = [op |-> "start_quiz", request |-> "question",
                             outcome |-> o, crashed |-> TRUE]
            ELSE /\ current_question' = parsed.value
                 /\ game_state' = "quiz"
                 /\ reset_turn_state
                 /\ last' = [op |-> "start_quiz", request |-> "question",
                             outcome |-> o, crashed |-> FALSE]
       ELSE /\ UNCHANGED <<current_question, game_state,
                           selected_option_index, is_answered>>
            /\ error' = IF r.sets_error THEN r.error ELSE error
            /\ last' = [op |-> "start_quiz", request |-> "question",
                        outcome |-> o, crashed |-> FALSE]

\* the page after a handler: st.rerun() renders the new state; an uncaught
\* exception leaves the widgets already drawn
PageAfter ==
    page' = IF last'.crashed THEN page
            ELSE Render(api_key, game_state', current_question', is_answered',
                        summary_content', error')

\* "Start Quiz" submitted with a non-empty topic, the remote model
\* drawing correct_option_index from idxs
SubmitTopicWith(idxs) ==
    /\ Widget("topic_form", 0) \in page
    /\ \E t \in Topics, o \in QuizOutcomes(idxs) : start_quiz(t, o)
    /\ PageAfter
    /\ UNCHANGED api_key

SubmitTopic == SubmitTopicWith(CorrectIndexes)

\* an answer button that also records the turn when it is pressed
SelectOptionRecording ==
    /\ \E i \in 0..MAX_INDEX :
          /\ Widget("option", i) \in page
          /\ selected_option_index' = Some(i)
          /\ history' = Append(history,
                               [question_data |-> current_question[1],
                                user_answer |-> current_question[1].options[i + 1],
                                is_correct |->
                                  (i = current_question[1].correct_option_index)])
    /\ is_answered' = TRUE
    /\ UNCHANGED <<api_key, game_state, topic, current_question,
                   summary_content, error, turn_recorded, quiz_requests>>
    /\ last' = [op |-> "submit_answer", request |-> "none", outcome |-> NoOutcome,
                crashed |-> FALSE]
    /\ PageAfter

\* an answer button is pressed
SelectOption ==
    /\ \E i \in 0..MAX_INDEX :
          /\ Widget("option", i) \in page
          /\ selected_option_index' = Some(i)
    /\ is_answered' = TRUE
    /\ UNCHANGED <<api_key, game_state, topic, history, current_question,
                   summary_content, error, turn_recorded, quiz_requests>>
    /\ last' = [op |-> "submit_answer", request |-> "none", outcome |-> NoOutcome,
                crashed |-> FALSE]
    /\ PageAfter

\* a turn that compares the selection with a 1-based correct index
TurnDataOneBased(q, sel) ==
    [question_data |-> q,
     user_answer |-> q.options[sel + 1],
     is_correct |-> (sel + 1 = q.correct_option_index)]

\* turn_data of next_question; options[i] of the 0-based Python list is
\* element i + 1 of the sequence
TurnData(q, sel) ==
    [question_data |-> q,
     user_answer |-> q.options[sel + 1],
     is_correct |-> (sel = q.correct_option_index)]

\* a turn put in front of the recorded ones
PrependTurn(h, turn) == <<turn>> \o h

\* st.session_state.history.append(turn_data)
AppendTurn(h, turn) == Append(h, turn)

\* a quiz that ends one turn early
QuizFinishedEarly(h) == Len(h) >= QUIZ_LENGTH - 1

\* len(st.session_state.history) >= 5
QuizFinished(h) == Len(h) >= QUIZ_LENGTH

\* next_question() with the remote model answering o
next_question(o) ==
    LET turn_data == TurnData(current_question[1], selected_option_index[1])
        r == get_quiz_question(o)
    IN
    /\ history' = AppendTurn(history, turn_data)
    /\ UNCHANGED <<topic, summary_content>>
    /\ quiz_requests' = IF QuizFinished(history') THEN quiz_requests
                                                  ELSE quiz_requests + 1
    /\ IF QuizFinished(history')
       THEN /\ game_state' = "summary"
            /\ turn_recorded' = TRUE
            /\ UNCHANGED <<current_question, selected_option_index,
                           is_answered, error>>
            /\ last' = [op |-> "next_question", request |-> "none",
                        outcome |-> NoOutcome, crashed |-> FALSE]
       ELSE /\ UNCHANGED game_state
            /\ IF ContentTruthy(r.value)
               THEN LET parsed == json_loads(r.value[1]) IN
                    IF parsed.raised
                    THEN /\ turn_recorded' = TRUE
                         /\ UNCHANGED <<current_question, selected_option_index,
                                        is_answered, error>>
                         /\ last' = [op |-> "next_question", request |-> "question",
                                     outcome |-> o, crashed |-> TRUE]
                    ELSE /\ current_question' = parsed.value
                         /\ turn_recorded' = FALSE
                         /\ reset_turn_state
                         /\ last' = [op |-> "next_question", request |-> "question",
                                     outcome |-> o, crashed |-> FALSE]
               ELSE /\ turn_recorded' = TRUE
                    /\ UNCHANGED <<current_question, selected_option_index,
                                   is_answered>>
                    /\ error' = IF r.sets_error THEN r.error ELSE error
                    /\ last' = [op |-> "next_question", request |-> "question",
                                outcome |-> o, crashed |-> FALSE]

\* "Next Question" / "Finish Quiz" pressed
ClickNextWith(idxs) ==
    /\ Widget("next", 0) \in page
    /\ \E o \in QuizOutcomes(idxs) : next_question(o)
    /\ PageAfter
    /\ UNCHANGED api_key

ClickNext == ClickNextWith(CorrectIndexes)

\* building the transcript raises when a turn's question lacks a key or
\* its correct_option_index is no index of its options
TranscriptRaises(h) ==
    \E k \in 1..Len(h) :
       LET q == h[k].question_data IN
       \/ ~({"question_text", "options", "correct_option_index"} \subseteq DOMAIN q)
       \/ q.correct_option_index \notin 0..(Len(q.options) - 1)

\* generate_summary() with the remote model answering o
generate_summary(o) ==
    LET r == get_summary_with_sources(o) IN
    /\ UNCHANGED <<game_state, topic, history, current_question,
                   selected_option_index, is_answered, turn_recorded,
                   quiz_requests>>
    /\ IF TranscriptRaises(history)
       THEN /\ UNCHANGED <<summary_content, error>>
            /\ last' = [op |-> "generate_summary", request |-> "none",
                        outcome |-> NoOutcome, crashed |-> TRUE]
       ELSE /\ summary_content' = IF TextTruthy(r.value) THEN r.value
                                                         ELSE summary_content
            /\ error' = IF r.sets_error THEN r.error ELSE error
            /\ last' = [op |-> "generate_summary", request |-> "summary",
                        outcome |-> o, crashed |-> FALSE]

\* a summary branch that asks again after a failed request
SummaryPendingDespiteError ==
    /\ game_state = "summary"
    /\ summary_content = None

\* a summary branch that asks again although a summary is stored
SummaryPendingDespiteSummary ==
    /\ error = None
    /\ game_state = "summary"

\* the summary branch is reached (no error, state 'summary') and
\* summary_content is None and not error
SummaryPending ==
    /\ error = None
    /\ game_state = "summary"
    /\ summary_content = None

\* a script run in the summary state with no summary stored yet, the
\* remote model answering from outcomes
RunSummaryWith(outcomes) ==
    /\ api_key
    /\ SummaryPending
    /\ \E o \in outcomes : generate_summary(o)
    /\ page' = IF TextTruthy(summary_content')
               THEN {Widget("dig_deeper", 0), Widget("new_quiz", 0)} ELSE {}
    /\ UNCHANGED api_key

RunSummary == RunSummaryWith(SummaryOutcomes)

\* a restart that resets the state machine but keeps the quiz data
restart_game_keeping_data ==
    /\ game_state' = "start"
    /\ UNCHANGED <<topic, history, current_question>>
    /\ summary_content' = None
    /\ selected_option_index' = None
    /\ is_answered' = FALSE
    /\ error' = None

\* restart_game() deletes every key; the script run that follows finds no
\* game_state key and runs the initializer
restart_game ==
    /\ game_state' = "start"
    /\ topic' = ""
    /\ history' = <<>>
    /\ current_question' = None
    /\ summary_content' = None
    /\ selected_option_index' = None
    /\ is_answered' = FALSE
    /\ error' = None

\* "Start Over" / "Start a New Quiz" pressed
Restart ==
    /\ Widget("start_over", 0) \in page \/ Widget("new_quiz", 0) \in page
    /\ restart_game
    /\ turn_recorded' = FALSE
    /\ quiz_requests' = 0
    /\ last' = [op |-> "restart", request |-> "none", outcome |-> NoOutcome,
                crashed |-> FALSE,
                before |-> [game_state |-> game_state, turns |-> Len(history),
                            error |-> error # None,
                            summary |-> summary_content # None]]
    /\ PageAfter
    /\ UNCHANGED api_key

\* a script run without a widget event (the user reruns the app) that
\* draws a page other than the one shown
Rerun ==
    /\ api_key
    /\ ~SummaryPending
    /\ page # Render(api_key, game_state, current_question, is_answered,
                     summary_content, error)
    /\ page' = Render(api_key, game_state, current_question, is_answered,
                      summary_content, error)
    /\ last' = [op |-> "rerun", request |-> "none", outcome |-> NoOutcome,
                crashed |-> FALSE]
    /\ UNCHANGED <<api_key, session, turn_recorded, quiz_requests>>

Next ==
    \/ SubmitTopic
    \/ SelectOption
    \/ ClickNext
    \/ RunSummary
    \/ Restart
    \/ Rerun

Spec == Init /\ [][Next]_vars

\* ---- the first turns of a quiz, over every correct_option_index ----

\* number of turns SpecTurns follows a quiz for
MaxTurns == 2

SubmitTopicWide == SubmitTopicWith(0..MAX_INDEX)

ClickNextWide ==
    /\ Len(history) < MaxTurns
    /\ ClickNextWith(0..MAX_INDEX)

\* RunSummary and Rerun need a quiz of QUIZ_LENGTH turns and are never
\* enabled within MaxTurns turns
NextTurns ==
    \/ SubmitTopicWide
    \/ SelectOption
    \/ ClickNextWide
    \/ Restart

SpecTurns == Init /\ [][NextTurns]_vars

\* ---- a remote model that always answers well ----

\* question responses that are objects of the schema's shape
GoodQuizOutcomes ==
    {[kind |-> "ok", content |-> Some(JsonObject(WellFormed(i)))] : i \in CorrectIndexes}

\* 2xx summary responses with a non-empty narrative
GoodSummaryOutcomes ==
    {o \in SummaryOutcomes : o.kind = "ok" /\ TextTruthy(o.data.content)}

SubmitTopicGood ==
    /\ Widget("topic_form", 0) \in page
    /\ \E t \in Topics, o \in GoodQuizOutcomes : start_quiz(t, o)
    /\ PageAfter
    /\ UNCHANGED api_key

ClickNextGood ==
    /\ Widget("next", 0) \in page
    /\ \E o \in GoodQuizOutcomes : next_question(o)
    /\ PageAfter
    /\ UNCHANGED api_key

RunSummaryGood == RunSummaryWith(GoodSummaryOutcomes)

\* Rerun is never enabled here: every script run ends with the page drawn
\* from the state
NextGood ==
    \/ SubmitTopicGood
    \/ SelectOption
    \/ ClickNextGood
    \/ RunSummaryGood
    \/ Restart

\* the user keeps submitting, answering and pressing next, and st.rerun()
\* runs the script that asks for the summary
SpecGood ==
    /\ Init
    /\ [][NextGood]_vars
    /\ WF_vars(SubmitTopicGood)
    /\ WF_vars(SelectOption)
    /\ WF_vars(ClickNextGood)
    /\ WF_vars(RunSummaryGood)

\* well-formed questions, any answer to the summary request
NextSummary ==
    \/ SubmitTopicGood
    \/ SelectOption
    \/ ClickNextGood
    \/ RunSummary
    \/ Restart
    \/ Rerun

SpecSummary == Init /\ [][NextSummary]_vars

\* ---- properties ----

\* C1: whenever game_state is 'summary' the history holds exactly
\* QUIZ_LENGTH (5) turns.
C1_SummaryHasFiveTurns ==
    game_state = "summary" => Len(history) = QUIZ_LENGTH

C1_Witness ==
    /\ game_state = "summary"
    /\ last.op = "next_question"
    /\ Len(history) = QUIZ_LENGTH

\* C2: after restart_game the session is the initial one (state start, empty
\* topic and history, no question, summary, selection or error), whatever
\* the state it was invoked in.
C2_RestartClears ==
    last.op = "restart" => InitSession

C2_Witness ==
    /\ last.op = "restart"
    /\ last.before.error
    /\ last.before.turns >= 1
    /\ InitSession

\* a truthy response content that is not an object of the schema's shape
Malformed(c) ==
    /\ ContentTruthy(c)
    /\ \/ json_loads(c[1]).raised
       \/ json_loads(c[1]).value = None
       \/ ~quiz_schema(json_loads(c[1]).value[1])

\* the last operation was a question request answered with content c
QuestionAnswered(c) ==
    /\ last.op \in {"start_quiz", "next_question"}
    /\ last.request = "question"
    /\ last.outcome.kind = "ok"
    /\ last.outcome.content = c

\* C3: a structured response that is malformed (missing options, fewer than
\* 4 options, not parseable) ends start_quiz / next_question with the error
\* set, without an uncaught exception, and is not stored as the current
\* question.
C3_MalformedIsParseError ==
    \A c \in Contents(CorrectIndexes) :
       (Malformed(c) /\ QuestionAnswered(c)) =>
          /\ error # None
          /\ ~last.crashed
          /\ current_question # json_loads(c[1]).value

\* C4: a failed question request of start_quiz leaves the error set, the
\* state not 'quiz' and the topic the empty string.
C4_FailedStartLeavesTopicUnset ==
    (last.op = "start_quiz" /\ last.outcome.kind = "exception") =>
       /\ error # None
       /\ game_state # "quiz"
       /\ topic = ""

\* the prefixes of the messages set for a transport error of the summary
\* request (non-2xx status, network failure)
TransportErrorPrefixes ==
    {SummaryErrorMessage([kind |-> k, text |-> ""])[1] : k \in {"http_error", "network"}}

\* C5: a timeout of the summary request sets a timeout-specific error
\* message, different from the message of a generic transport error.
C5_TimeoutMessageIsSpecific ==
    (last.op = "generate_summary" /\ last.outcome.kind = "timeout") =>
       /\ error # None
       /\ error[1][1] \notin TransportErrorPrefixes

\* C6: while the error is set, the only step that changes the session is
\* restart, which yields the initial session; no remote request is issued
\* and nothing else changes error, history, topic or current question.
C6_ErrorHaltsUntilRestart ==
    [][error # None =>
          \/ last'.op = "restart" /\ InitSession'
          \/ UNCHANGED session /\ last'.request = "none"]_vars

C6_Witness ==
    /\ error # None
    /\ last.op = "next_question"
    /\ Len(history) >= 1
    /\ current_question # None

\* C7: whenever game_state is 'quiz' the current question is not None.
C7_QuizHasQuestion ==
    game_state = "quiz" => current_question # None

\* C8: the history never holds more than 5 turns, and a question whose
\* turn is recorded is never appended again.
C8_OneTurnPerAnswer ==
    [][/\ Len(history') <= QUIZ_LENGTH
       /\ Len(history') > Len(history) => ~turn_recorded]_vars

\* C9: the turn next_question appends records the current question, the
\* option at the selected index, and the flag (selected index = correct
\* index).
C9_TurnFlag ==
    [][Len(history') = Len(history) + 1 =>
          LET turn == history'[Len(history')]
              q == current_question[1]
              sel == selected_option_index[1]
          IN  /\ turn.question_data = q
              /\ turn.user_answer = q.options[sel + 1]
              /\ turn.is_correct = (sel = q.correct_option_index)]_vars

C9_Witness ==
    /\ Len(history) = 2
    /\ history[1] = [question_data |-> WellFormed(3), user_answer |-> "D",
                     is_correct |-> TRUE]
    /\ history[2] = [question_data |-> WellFormed(2), user_answer |-> "A",
                     is_correct |-> FALSE]

\* C10: after a successful summary response, a stored summary is the
\* narrative alone when search_results is absent or empty, and the
\* narrative followed by the Sources header and one numbered link per
\* result, in the order of search_results, otherwise; absent or empty
\* search_results never set the error.
C10_SummarySources ==
    (last.op = "generate_summary" /\ last.outcome.kind = "ok") =>
       LET data == last.outcome.data
           results == IF "search_results" \in DOMAIN data
                      THEN data.search_results ELSE <<>>
           n == Len(results)
       IN  IF results = <<>>
           THEN /\ error = None
                /\ summary_content # None => summary_content = data.content
           ELSE summary_content # None =>
                  LET text == summary_content[1]
                      m == Len(data.content[1])
                  IN  /\ Len(text) = m + 1 + n
                      /\ SubSeq(text, 1, m) = data.content[1]
                      /\ text[m + 1] = SourcesHeader
                      /\ \A i \in 1..n :
                            /\ text[m + 1 + i][1] = "item"
                            /\ text[m + 1 + i][2] = i
                            /\ text[m + 1 + i][3] =
                                 (IF "title" \in DOMAIN results[i]
                                  THEN results[i].title ELSE "Source Link")
                            /\ text[m + 1 + i][4] = results[i].url

C10_Witness ==
    /\ last.op = "generate_summary"
    /\ last.outcome.kind = "ok"
    /\ "search_results" \in DOMAIN last.outcome.data
    /\ last.outcome.data.search_results
         = <<[url |-> "U2"], [title |-> "T1", url |-> "U1"]>>
    /\ summary_content # None

\* the last operation issued a request that ended in a transport failure:
\* a non-2xx status or a network failure
TransportFailure ==
    /\ last.request # "none"
    /\ \/ last.outcome.kind = "exception"
       \/ last.outcome.kind \in {"http_error", "network"}

\* C11: in both request modes a transport failure (non-2xx status, network
\* failure) is stored as "API Error: <details>" on the session error and
\* is not raised out of the operation.
C11_TransportErrorIsApiError ==
    TransportFailure =>
       /\ ~last.crashed
       /\ error # None
       /\ error[1][1] = "API Error: "

\* C12: no request is retried: one event issues at most one request, and
\* while the error of a failed request is set no request is issued.
C12_NoRetry ==
    [][/\ quiz_requests' <= quiz_requests + 1
       /\ error # None => last'.request = "none"]_vars

C12_Witness ==
    /\ error # None
    /\ last.op = "generate_summary"
    /\ last.request = "summary"
    /\ last.outcome.kind = "network"

\* C13: without an API key the session state is never initialized, no
\* widget is drawn and no remote request is issued.
C13_NoKeyIsFatal ==
    ~api_key =>
       /\ NoSession
       /\ page = {}
       /\ last.op = "init"
       /\ last.request = "none"
       /\ quiz_requests = 0

C13_Witness ==
    /\ ~api_key
    /\ game_state = "unset"

\* C14: next_question issues a question request exactly when the history
\* is below 5 turns after its append; the append that makes 5 turns sets
\* 'summary' without a request, and a quiz that reaches the summary has
\* issued exactly 5 question requests.
C14_RequestsPerQuiz ==
    /\ last.op = "next_question" =>
          /\ (last.request = "question") = (Len(history) < QUIZ_LENGTH)
          /\ (last.request = "none") = (game_state = "summary")
    /\ game_state = "summary" => quiz_requests = QUIZ_LENGTH
    /\ game_state = "quiz" => quiz_requests = Len(history) + 1

C14_Witness ==
    /\ game_state = "summary"
    /\ last.op = "next_question"
    /\ last.request = "none"
    /\ quiz_requests = QUIZ_LENGTH

\* C15: selecting an answer sets selected_option_index and is_answered and
\* nothing else of the session, and issues no remote request.
C15_SelectIsPure ==
    [][last'.op = "submit_answer" =>
          /\ UNCHANGED <<game_state, topic, history, current_question,
                         summary_content, error, quiz_requests>>
          /\ last'.request = "none"
          /\ is_answered'
          /\ selected_option_index' # None]_vars

C15_Witness ==
    /\ last.op = "submit_answer"
    /\ is_answered
    /\ selected_option_index = Some(2)
    /\ Len(history) = 3

IsPrefix(s, t) ==
    /\ Len(s) <= Len(t)
    /\ \A k \in 1..Len(s) : s[k] = t[k]

\* C16: every operation other than start_quiz and restart_game leaves the
\* recorded turns unchanged and in order: the history before it is a
\* prefix of the history after it.
C16_HistoryAppendOnly ==
    [][last'.op \notin {"start_quiz", "restart"} => IsPrefix(history, history')]_vars

C16_Witness ==
    /\ last.op = "next_question"
    /\ Len(history) = 3
    /\ history[1].user_answer = "A"
    /\ history[2].user_answer = "D"
    /\ history[3].user_answer = "B"

SummaryStored ==
    /\ game_state = "summary"
    /\ TextTruthy(summary_content)
    /\ Len(history) = QUIZ_LENGTH
    /\ quiz_requests = QUIZ_LENGTH

\* C17: with a remote model that always answers well and a user who keeps
\* acting, game_state only moves start -> quiz -> summary -> start, a
\* session in the start state eventually holds a stored summary after
\* exactly 5 turns, and a restart from there leads back to start.
C17_QuizCompletes ==
    /\ [][game_state' # game_state =>
             <<game_state, game_state'>> \in
                {<<"start", "quiz">>, <<"quiz", "summary">>, <<"summary", "start">>}]_vars
    /\ (api_key /\ game_state = "start") ~> SummaryStored
    /\ [][(SummaryStored /\ last'.op = "restart") => InitSession']_vars

C17_Witness ==
    /\ SummaryStored
    /\ last.op = "generate_summary"
    /\ Widget("new_quiz", 0) \in page

\* C18: with an API key every page offers at least one user action, and
\* after a failed or empty summary response the page shows the error
\* with the restart button.  (While the script run that asks for the
\* summary is still to come, nothing is drawn yet.)
C18_PageOffersAction ==
    api_key =>
       /\ ~SummaryPending => page # {}
       /\ (last.op = "generate_summary" /\ summary_content = None) =>
             /\ error # None
             /\ Widget("start_over", 0) \in page

C20_SummaryRequestedOnce ==
    [][summary_content # None =>
          /\ last'.request # "summary"
          /\ summary_content' = summary_content \/ last'.op = "restart"]_vars

C20_Witness ==
    /\ summary_content # None
    /\ last.op = "generate_summary"
    /\ last.request = "summary"
    /\ error = None

====
